---- MODULE Spec2Model ----
(***************************************************************************)
(* Model of the trip planner's generator-output pipeline: the three        *)
(* agents (ItineraryAgent, EventsAgent, RestaurantAgent), their process    *)
(* coroutine, and the three FastAPI endpoints that call them.              *)
(*                                                                         *)
(* Texts are sequences of characters.  A character is either a plain       *)
(* character or one opaque symbol standing for the text of a whole JSON    *)
(* document (which begins and ends with a bracket, brace, quote, digit or  *)
(* letter, never with whitespace or a backtick).                           *)
(***************************************************************************)
EXTENDS Integers, Sequences, FiniteSets, TLC

VARIABLES
    pc,          \* per invocation: position of the handler / coroutine
    via,         \* per invocation: "http" (endpoint) or "direct" (process called)
    agent,       \* per invocation: which agent instance is used
    input_data,  \* per invocation: the dict passed to process
    call,        \* per invocation: the outstanding chain.ainvoke call
    response,    \* per coroutine frame: what the await resumed with
    delivered,   \* history: what the generator produced for this invocation
    calls,       \* history: number of chain.ainvoke calls of this invocation
    outcome,     \* per invocation: what process returned or raised, with its trace
    http,        \* per invocation: the HTTP response of the endpoint
    raw,         \* normalizer study: the input text
    npc,         \* normalizer study: which results have been computed
    norm1,       \* normalizer study: normalize(raw)
    norm2,       \* normalizer study: normalize(normalize(raw))
    normW        \* normalizer study: normalize(fence-wrapped raw)

vars == <<pc, via, agent, input_data, call, response, delivered, calls,
          outcome, http, raw, npc, norm1, norm2, normW>>

pipeVars == <<pc, via, agent, input_data, call, response, delivered, calls,
              outcome, http>>
normVars == <<raw, npc, norm1, norm2, normW>>

(***************************************************************************)
(* Bounds of the model.                                                    *)
(***************************************************************************)
MaxTokens == 4   \* tokens in a text of the normalizer study
MaxItems  == 2   \* items in a container sequence (events, restaurants, days)
MaxActs   == 2   \* activities in one day

(***************************************************************************)
(* Characters and texts.                                                   *)
(***************************************************************************)
Ch(c) == [k |-> "ch", v |-> c]
DocCh(d) == [k |-> "doc", v |-> d]

IsSpace(c) == c.k = "ch" /\ c.v \in {" ", "\n"}

Str(s) == [i \in 1..Len(s) |-> Ch(s[i])]

\* The two markers of the clean-up: three backticks followed by json, and
\* three backticks.
\* The backtick character is written by name.
Backtick == "backtick"
OpenMarker == Str(<<Backtick, Backtick, Backtick, "j", "s", "o", "n">>)
CloseMarker == Str(<<Backtick, Backtick, Backtick>>)

StartsWith(t, m) == Len(t) >= Len(m) /\ SubSeq(t, 1, Len(m)) = m
EndsWith(t, m) == Len(t) >= Len(m) /\ SubSeq(t, Len(t) - Len(m) + 1, Len(t)) = m

RECURSIVE LStrip(_)
LStrip(t) == IF t # <<>> /\ IsSpace(Head(t)) THEN LStrip(Tail(t)) ELSE t

RECURSIVE RStrip(_)
RStrip(t) ==
    IF t # <<>> /\ IsSpace(t[Len(t)]) THEN RStrip(SubSeq(t, 1, Len(t) - 1)) ELSE t

\* str.strip()
Strip(t) == RStrip(LStrip(t))

\* Mutant of the clean-up: the opening marker is removed only from a text
\* that also ends with the closing marker.
DropOpenWhenFenced(t) ==
    IF StartsWith(t, OpenMarker) /\ EndsWith(t, CloseMarker)
    THEN SubSeq(t, 8, Len(t))
    ELSE t

\* response_text[7:]
DropOpen(t) == IF StartsWith(t, OpenMarker) THEN SubSeq(t, 8, Len(t)) ELSE t
\* response_text[:-3]
DropClose(t) == IF EndsWith(t, CloseMarker) THEN SubSeq(t, 1, Len(t) - 3) ELSE t

\* Mutant of the clean-up: the final strip() is forgotten.
NormalizeNoFinalStrip(t) == DropClose(DropOpen(Strip(t)))

\* Mutant of the clean-up: the markers are removed until none is left.
RECURSIVE NormalizeRepeated(_)
NormalizeRepeated(t) ==
    LET s == Strip(t)
    IN IF StartsWith(s, OpenMarker) \/ EndsWith(s, CloseMarker)
       THEN NormalizeRepeated(DropClose(DropOpen(s)))
       ELSE s

\* response.content.strip(), the two conditional slices, the final strip().
Normalize(t) == Strip(DropClose(DropOpen(Strip(t))))

\* A text wrapped in the fence: the opening marker at the very start and
\* the closing marker at the very end.
Wrap(t) == OpenMarker \o t \o CloseMarker

(***************************************************************************)
(* Normalizer study: the texts are all concatenations of at most MaxTokens *)
(* tokens.                                                                 *)
(***************************************************************************)
NormTokens ==
    {OpenMarker, CloseMarker, Str(<<" ">>), Str(<<"x">>), Str(<<Backtick>>)}

RECURSIVE TokenTexts(_)
TokenTexts(n) ==
    IF n = 0 THEN {<<>>}
    ELSE LET shorter == TokenTexts(n - 1)
         IN shorter \cup {tok \o t : tok \in NormTokens, t \in shorter}

NormTexts == TokenTexts(MaxTokens)


(***************************************************************************)
(* Python values.  A JSON value (what json.loads returns) is a record with *)
(* its kind; a dict is a function from its keys.  The string values of the *)
(* model are "", one-character strings and key names, so that a required   *)
(* field name is a substring of a string only when it is that string.      *)
(***************************************************************************)
JNull == [kind |-> "null"]
JNum(n) == [kind |-> "num", n |-> n]
JBool(b) == [kind |-> "bool", b |-> b]
JStr(s) == [kind |-> "str", s |-> s]
JArr(q) == [kind |-> "arr", items |-> q]
JObj(m) == [kind |-> "obj", m |-> m]

\* {} : the dict with no key.
EmptyDict == [k \in {} |-> JNull]

\* A dict holding only key k.
Single(k, v) == [x \in {k} |-> v]

\* The dict d without the keys of K.
Without(d, K) == [x \in (DOMAIN d) \ K |-> d[x]]

\* The dict d with key k set to v.
With(d, k, v) == [x \in (DOMAIN d) \cup {k} |-> IF x = k THEN v ELSE d[x]]

(***************************************************************************)
(* Exceptions and the outcome of an evaluation that may raise.             *)
(* An exception has its class and what str(e) shows: a message and, for a  *)
(* pydantic ValidationError, the location (item index and field) of the    *)
(* first error.                                                            *)
(***************************************************************************)
NoIndex == -1
NoField == ""

Exc(cls, msg, index, sub, field) ==
    [cls |-> cls, msg |-> msg, index |-> index, sub |-> sub, field |-> field]

TypeError(msg) == Exc("TypeError", msg, NoIndex, NoIndex, NoField)
KeyError(key) == Exc("KeyError", key, NoIndex, NoIndex, NoField)
JSONDecodeError ==
    Exc("JSONDecodeError", "Expecting value", NoIndex, NoIndex, NoField)
\* index: position in the container; sub: position in the nested container.
ValidationError(index, sub, field) ==
    Exc("ValidationError", "validation error", index, sub, field)

\* The classes of the model all derive from Exception.
ExceptionClasses ==
    {"TypeError", "KeyError", "JSONDecodeError", "ValidationError",
     "TimeoutError", "APIError", "HTTPException"}

\* Mutant of the handlers: only value errors are caught.
OnlyValueErrors(e) == e.cls \in {"JSONDecodeError", "ValidationError"}

\* except Exception as e
IsException(e) == e.cls \in ExceptionClasses

\* except json.JSONDecodeError as e
IsJSONDecodeError(e) == e.cls = "JSONDecodeError"

Ok(v) == [ok |-> TRUE, val |-> v]
Raise(e) == [ok |-> FALSE, exc |-> e]

\* str(e)
StrOf(e) == [msg |-> e.msg, index |-> e.index, sub |-> e.sub, field |-> e.field]
NoDetail == [msg |-> "", index |-> NoIndex, sub |-> NoIndex, field |-> NoField]

(***************************************************************************)
(* Python operators on values.                                             *)
(***************************************************************************)
IsContainer(v) == v.kind \in {"obj", "arr", "str"}

\* key in v
PyIn(key, v) ==
    CASE v.kind = "obj" -> Ok(key \in DOMAIN v.m)
      [] v.kind = "arr" ->
            Ok(\E i \in 1..Len(v.items) :
                  v.items[i].kind = "str" /\ v.items[i].s = key)
      [] v.kind = "str" -> Ok(v.s = key)
      [] OTHER -> Raise(TypeError("argument is not iterable"))

\* all(field in v for field in fields)
PyAllIn(fields, v) ==
    IF IsContainer(v)
    THEN Ok(\A i \in 1..Len(fields) : PyIn(fields[i], v).val)
    ELSE Raise(TypeError("argument is not iterable"))

\* v[key] for a string key
PyGetItem(v, key) ==
    CASE v.kind = "obj" ->
            IF key \in DOMAIN v.m THEN Ok(v.m[key]) ELSE Raise(KeyError(key))
      [] v.kind \in {"arr", "str"} -> Raise(TypeError("indices must be integers"))
      [] OTHER -> Raise(TypeError("object is not subscriptable"))

\* The keys of a dict in some order (the dicts that the model iterates over
\* hold at most one key, where the order is the insertion order).
KeySeq(m) ==
    CHOOSE q \in [1..Cardinality(DOMAIN m) -> DOMAIN m] :
        \A k \in DOMAIN m : \E i \in DOMAIN q : q[i] = k

\* for x in v : the sequence of values the loop visits
PyIter(v) ==
    CASE v.kind = "arr" -> Ok(v.items)
      [] v.kind = "obj" ->
            Ok([i \in 1..Cardinality(DOMAIN v.m) |-> JStr(KeySeq(v.m)[i])])
      [] v.kind = "str" -> Ok(IF v.s = "" THEN <<>> ELSE <<JStr(v.s)>>)
      [] OTHER -> Raise(TypeError("object is not iterable"))


(***************************************************************************)
(* The three domains.                                                      *)
(***************************************************************************)
Agents == {"itinerary", "events", "restaurant"}

\* The key tested by the first structural check of process.
ContainerKey(a) ==
    CASE a = "itinerary" -> "days"
      [] a = "events" -> "events"
      [] a = "restaurant" -> "restaurants"

\* required_fields of the item loop (for the itinerary: of the activity loop).
RequiredFields(a) ==
    CASE a = "itinerary" ->
            <<"name", "description", "start_time", "end_time", "location", "category">>
      [] a = "events" ->
            <<"name", "description", "date", "location", "price", "category">>
      [] a = "restaurant" ->
            <<"name", "cuisine", "rating", "price_range", "address",
              "reservation_available">>

(***************************************************************************)
(* The response models of models/schemas.py: the fields of an item in      *)
(* declaration order, with their declared types.                           *)
(***************************************************************************)
F(name, type) == [name |-> name, type |-> type]

Activity ==
    <<F("name", "str"), F("description", "str"), F("start_time", "str"),
      F("end_time", "str"), F("location", "str"), F("category", "str")>>

Event ==
    <<F("name", "str"), F("description", "str"), F("date", "str"),
      F("location", "str"), F("price", "float"), F("category", "str")>>

Restaurant ==
    <<F("name", "str"), F("cuisine", "str"), F("rating", "float"),
      F("price_range", "str"), F("address", "str"),
      F("reservation_available", "bool"), F("opening_hours", "optstr")>>

ItemModel(a) ==
    CASE a = "itinerary" -> Activity
      [] a = "events" -> Event
      [] a = "restaurant" -> Restaurant

\* Whether pydantic accepts value v for a field of the declared type.  (The
\* values of the model are those on which pydantic 1 and 2 agree.)
Coercible(type, v) ==
    CASE type = "str" -> v.kind = "str"
      [] type = "float" -> v.kind = "num"
      [] type = "bool" -> v.kind = "bool"
      [] type = "optstr" -> v.kind \in {"str", "null"}

IsOptional(type) == type = "optstr"

Min(S) == CHOOSE x \in S : \A y \in S : x <= y

\* Mutant of the item models: the declared types are not enforced, only the
\* presence of the fields.
BuildItemUnchecked(model, v, index, sub) ==
    IF v.kind # "obj" THEN Raise(ValidationError(index, sub, NoField))
    ELSE LET bad == {i \in 1..Len(model) :
                        model[i].name \notin DOMAIN v.m /\ ~IsOptional(model[i].type)}
         IN IF bad # {}
            THEN Raise(ValidationError(index, sub, model[Min(bad)].name))
            ELSE Ok([f \in {model[i].name : i \in 1..Len(model)} |->
                        IF f \in DOMAIN v.m THEN v.m[f] ELSE JNull])

\* Event(**v), Restaurant(**v), Activity(**v) followed by .dict(): the typed
\* item, or the ValidationError naming the first field in error.  Keys that
\* the model does not declare are ignored.
BuildItem(model, v, index, sub) ==
    IF v.kind # "obj" THEN Raise(ValidationError(index, sub, NoField))
    ELSE LET bad == {i \in 1..Len(model) :
                        IF model[i].name \in DOMAIN v.m
                        THEN ~Coercible(model[i].type, v.m[model[i].name])
                        ELSE ~IsOptional(model[i].type)}
         IN IF bad # {}
            THEN Raise(ValidationError(index, sub, model[Min(bad)].name))
            ELSE Ok([f \in {model[i].name : i \in 1..Len(model)} |->
                        IF f \in DOMAIN v.m THEN v.m[f] ELSE JNull])

\* Mutant of the list fields: the items that cannot be built are left out
\* and the others are kept, in their order.
CollectValid(built) ==
    LET good == {i \in DOMAIN built : built[i].ok}
        kept == CHOOSE f \in [1..Cardinality(good) -> good] :
                    \A x, y \in 1..Cardinality(good) : x < y => f[x] < f[y]
    IN Ok([k \in 1..Cardinality(good) |-> built[kept[k]].val])

\* A list of typed items from the results of building each: the first item
\* in error decides.
Collect(built) ==
    IF \A i \in DOMAIN built : built[i].ok
    THEN Ok([i \in DOMAIN built |-> built[i].val])
    ELSE built[Min({i \in DOMAIN built : ~built[i].ok})]

\* List[Activity] of one day: index is the day's position.
BuildActivities(v, index) ==
    IF v.kind # "arr" THEN Raise(ValidationError(index, NoIndex, "activities"))
    ELSE Collect([j \in 1..Len(v.items) |->
                     BuildItem(Activity, v.items[j], index, j - 1)])

\* The typed day from its date and the result of building its activities.
DayDict(date, acts) ==
    IF ~acts.ok THEN acts
    ELSE Ok([f \in {"date", "activities"} |-> IF f = "date" THEN date ELSE acts.val])

\* DayPlan(**v).dict()
BuildDay(v, index) ==
    IF v.kind # "obj" THEN Raise(ValidationError(index, NoIndex, NoField))
    ELSE IF "date" \notin DOMAIN v.m \/ ~Coercible("str", v.m["date"])
    THEN Raise(ValidationError(index, NoIndex, "date"))
    ELSE IF "activities" \notin DOMAIN v.m
    THEN Raise(ValidationError(index, NoIndex, "activities"))
    ELSE DayDict(v.m["date"], BuildActivities(v.m["activities"], index))

\* The list field of the response model: List[Event], List[Restaurant] or
\* List[DayPlan].
BuildList(a, v) ==
    IF v.kind # "arr"
    THEN Raise(ValidationError(NoIndex, NoIndex, ContainerKey(a)))
    ELSE Collect([i \in 1..Len(v.items) |->
                     IF a = "itinerary" THEN BuildDay(v.items[i], i - 1)
                     ELSE BuildItem(ItemModel(a), v.items[i], i - 1, NoIndex)])

\* .dict() of the response model: the list under the container key.
ResponseDict(a, list) ==
    IF ~list.ok THEN list ELSE Ok(Single(ContainerKey(a), list.val))

\* EventResponse(**events_data).dict(), RestaurantResponse(**restaurants_data)
\* .dict(), ItineraryResponse(days=itinerary_data["days"]).dict(); data is a
\* dict that holds the container key when this is reached.
BuildResponse(a, data) ==
    IF data.kind # "obj" THEN Raise(TypeError("argument after ** must be a mapping"))
    ELSE ResponseDict(a, BuildList(a, data.m[ContainerKey(a)]))

(***************************************************************************)
(* AgentResponse and the messages of the agents.                           *)
(***************************************************************************)
\* error: Optional[str] = None.  A message is its fixed text followed by the
\* str(e) it interpolates, if any.
ErrNone == [set |-> FALSE, text |-> "", detail |-> NoDetail]
Err(text, detail) == [set |-> TRUE, text |-> text, detail |-> detail]

AgentResponse(success, data, error) ==
    [success |-> success, data |-> data, error |-> error]

Failed(text, detail) == AgentResponse(FALSE, EmptyDict, Err(text, detail))
Succeeded(data) == AgentResponse(TRUE, data, ErrNone)

InvalidInputText == "Invalid input data"

GenerateFailText(a) ==
    CASE a = "itinerary" -> "Failed to generate itinerary: "
      [] a = "events" -> "Failed to generate events: "
      [] a = "restaurant" -> "Failed to generate restaurants: "

MissingText(a) ==
    CASE a = "itinerary" -> "Response missing 'days' array"
      [] a = "events" -> "Response missing 'events' array"
      [] a = "restaurant" -> "Response missing 'restaurants' array"

DayText == "Invalid day structure in response"

ItemText(a) ==
    CASE a = "itinerary" -> "Invalid activity structure in response"
      [] a = "events" -> "Invalid event structure in response"
      [] a = "restaurant" -> "Invalid restaurant structure in response"

ParseFailText(a) ==
    CASE a = "itinerary" -> "Failed to parse itinerary response: "
      [] a = "events" -> "Failed to parse events response: "
      [] a = "restaurant" -> "Failed to parse restaurants response: "

ProcessFailText(a) ==
    CASE a = "itinerary" -> "Failed to process itinerary: "
      [] a = "events" -> "Failed to process events: "
      [] a = "restaurant" -> "Failed to process restaurants: "

\* Mutant of handle_error: the error message is left out.
handle_error_without_message(e) == AgentResponse(FALSE, EmptyDict, ErrNone)

\* BaseAgent.handle_error
handle_error(e) == Failed("", StrOf(e))

(***************************************************************************)
(* What a piece of process ends with: it returned an envelope, raised, or  *)
(* (for the first half) is suspended in chain.ainvoke.  ran is the list of *)
(* the stages that were run.                                               *)
(***************************************************************************)
Returned(env, ran) == [kind |-> "returned", env |-> env, ran |-> ran]
Raised(e, ran) == [kind |-> "raised", exc |-> e, ran |-> ran]
Suspended(chain_input, ran) ==
    [kind |-> "suspended", chain_input |-> chain_input, ran |-> ran]

(***************************************************************************)
(* The request models and validate_input.  The values of an input dict are *)
(* abstracted to: a value of the declared type, a value that cannot be     *)
(* coerced to it, or None.                                                 *)
(***************************************************************************)
Good == [kind |-> "good"]
Bad == [kind |-> "bad"]
Default == [kind |-> "default"]

\* required: the field has no default; nullable: the field is Optional.
R(name, required, nullable) ==
    [name |-> name, required |-> required, nullable |-> nullable]

ItineraryRequest ==
    <<R("destination", FALSE, FALSE), R("start_date", TRUE, FALSE),
      R("days", TRUE, FALSE), R("preferences", TRUE, FALSE),
      R("budget", FALSE, TRUE)>>

EventRequest ==
    <<R("location", FALSE, FALSE), R("event_date", TRUE, FALSE),
      R("preferences", TRUE, FALSE), R("budget", TRUE, FALSE)>>

RestaurantRequest ==
    <<R("location", FALSE, FALSE), R("date", TRUE, FALSE),
      R("cuisine_preferences", FALSE, FALSE), R("price_range", FALSE, FALSE),
      R("party_size", FALSE, TRUE)>>

RequestModel(a) ==
    CASE a = "itinerary" -> ItineraryRequest
      [] a = "events" -> EventRequest
      [] a = "restaurant" -> RestaurantRequest

\* ItineraryRequest(**input_data) and its like: the request, or the
\* ValidationError of the first field in error.  Undeclared keys are ignored.
MakeRequest(a, input) ==
    IF input.kind # "obj" THEN Raise(TypeError("argument after ** must be a mapping"))
    ELSE LET model == RequestModel(a)
             bad == {i \in 1..Len(model) :
                        IF model[i].name \in DOMAIN input.m
                        THEN LET v == input.m[model[i].name]
                             IN v.kind = "bad"
                                \/ (v.kind = "null" /\ ~model[i].nullable)
                        ELSE model[i].required}
         IN IF bad # {}
            THEN Raise(ValidationError(NoIndex, NoIndex, model[Min(bad)].name))
            ELSE Ok([f \in {model[i].name : i \in 1..Len(model)} |->
                        IF f \in DOMAIN input.m THEN input.m[f] ELSE Default])

\* request.dict(): every declared field, defaults filled in.
RequestDict(req) ==
    JObj([f \in DOMAIN req |-> IF req[f].kind = "default" THEN Good ELSE req[f]])

\* Mutant of validate_input: the events agent asks for the key of the
\* request model, "event_date", instead of "date".
validate_input_event_date(a, input) ==
    CASE a = "itinerary" ->
            PyAllIn(<<"destination", "start_date", "preferences", "days">>, input)
      [] a = "events" ->
            PyAllIn(<<"location", "event_date", "preferences", "budget">>, input)
      [] a = "restaurant" -> PyIn("date", input)

\* validate_input of the three agents
validate_input(a, input) ==
    CASE a = "itinerary" ->
            PyAllIn(<<"destination", "start_date", "preferences", "days">>, input)
      [] a = "events" ->
            PyAllIn(<<"location", "date", "preferences", "budget">>, input)
      [] a = "restaurant" -> PyIn("date", input)

\* chain_input: the template variables and the request field each is taken from.
ChainInput(a, req) ==
    CASE a = "itinerary" ->
            [destination |-> req["destination"], start_date |-> req["start_date"],
             preferences |-> req["preferences"], days |-> req["days"]]
      [] a = "events" ->
            [location |-> req["location"], date |-> req["event_date"],
             preferences |-> req["preferences"], budget |-> req["budget"]]
      [] a = "restaurant" ->
            [location |-> req["location"], date |-> req["date"],
             cuisine_preferences |-> req["cuisine_preferences"],
             price_range |-> req["price_range"], party_size |-> req["party_size"]]

\* The outermost handler of process: except Exception as e: return
\* self.handle_error(e).
OuterExcept(res) ==
    IF res.kind = "raised" /\ IsException(res.exc)
    THEN Returned(handle_error(res.exc), res.ran)
    ELSE res

\* process from the request model to the await: chain_input and the call of
\* chain.ainvoke.
AfterRequest(a, req) ==
    IF ~req.ok THEN Raised(req.exc, <<"validate_input", "request">>)
    ELSE Suspended(ChainInput(a, req.val),
                   <<"validate_input", "request", "generate">>)

\* Mutant of process: the result of validate_input is not looked at.
AfterValidateIgnored(a, input, valid) ==
    IF ~valid.ok THEN Raised(valid.exc, <<"validate_input">>)
    ELSE AfterRequest(a, MakeRequest(a, input))

\* process after validate_input has returned or raised.
AfterValidate(a, input, valid) ==
    IF ~valid.ok THEN Raised(valid.exc, <<"validate_input">>)
    ELSE IF ~valid.val
    THEN Returned(Failed(InvalidInputText, NoDetail), <<"validate_input">>)
    ELSE AfterRequest(a, MakeRequest(a, input))

\* process up to the await: validate_input, the request model, chain_input,
\* the call of chain.ainvoke, inside the outermost try.
ProcessPre(a, input) ==
    OuterExcept(AfterValidate(a, input, validate_input(a, input)))

(***************************************************************************)
(* The structural checks of process.  A check passes, makes process return *)
(* an envelope, or raises.                                                 *)
(***************************************************************************)
Pass == [r |-> "pass"]
ReturnEnv(env) == [r |-> "return", env |-> env]
RaiseExc(e) == [r |-> "raise", exc |-> e]

\* The item loop from the value of all(...) for each item: the first item
\* that stops the loop decides.
ItemVerdict(a, res) ==
    IF \A i \in DOMAIN res : res[i].ok /\ res[i].val THEN Pass
    ELSE IF ~res[Min({i \in DOMAIN res : ~res[i].ok \/ ~res[i].val})].ok
    THEN RaiseExc(res[Min({i \in DOMAIN res : ~res[i].ok \/ ~res[i].val})].exc)
    ELSE ReturnEnv(Failed(ItemText(a), NoDetail))

\* Mutant of the item loop: only the first item is checked.
ItemLoopFirstOnly(a, items) ==
    ItemVerdict(a, [i \in 1..(IF Len(items) = 0 THEN 0 ELSE 1) |->
                       PyAllIn(RequiredFields(a), items[i])])

\* for item in items: if not all(field in item for field in required_fields):
\* return ...
ItemLoop(a, items) ==
    ItemVerdict(a, [i \in 1..Len(items) |-> PyAllIn(RequiredFields(a), items[i])])

\* for activity in day["activities"], given what day["activities"] evaluates to.
ActivityLoop(acts) ==
    IF ~acts.ok THEN RaiseExc(acts.exc)
    ELSE IF ~PyIter(acts.val).ok THEN RaiseExc(PyIter(acts.val).exc)
    ELSE ItemLoop("itinerary", PyIter(acts.val).val)

\* Mutant of the day loop: only "date" is tested on a day.
DayCheckDateOnly(day) ==
    IF ~PyIn("date", day).ok THEN RaiseExc(PyIn("date", day).exc)
    ELSE IF ~PyIn("date", day).val
    THEN ReturnEnv(Failed(DayText, NoDetail))
    ELSE ActivityLoop(PyGetItem(day, "activities"))

\* The body of the loop over the days of an itinerary.
DayCheck(day) ==
    IF ~PyIn("date", day).ok THEN RaiseExc(PyIn("date", day).exc)
    ELSE IF ~PyIn("date", day).val \/ ~PyIn("activities", day).val
    THEN ReturnEnv(Failed(DayText, NoDetail))
    ELSE ActivityLoop(PyGetItem(day, "activities"))

\* The loop over the days from the verdict on each: the first day that does
\* not pass decides.
DayVerdict(res) ==
    IF \A i \in DOMAIN res : res[i].r = "pass" THEN Pass
    ELSE res[Min({i \in DOMAIN res : res[i].r # "pass"})]

\* Mutant of the day loop: the keys of every day are tested first, and the
\* activities are looked at only when every day has both keys.
DayLoopKeysFirst(days) ==
    IF \E i \in 1..Len(days) :
          DayCheck(days[i]).r = "return" /\ DayCheck(days[i]).env.error.text = DayText
    THEN ReturnEnv(Failed(DayText, NoDetail))
    ELSE DayVerdict([i \in 1..Len(days) |-> DayCheck(days[i])])

\* for day in itinerary_data["days"]
DayLoop(days) == DayVerdict([i \in 1..Len(days) |-> DayCheck(days[i])])

\* The loop over the container, given what data[key] evaluates to.
ContainerLoop(a, cont) ==
    IF ~cont.ok THEN RaiseExc(cont.exc)
    ELSE IF ~PyIter(cont.val).ok THEN RaiseExc(PyIter(cont.val).exc)
    ELSE IF a = "itinerary" THEN DayLoop(PyIter(cont.val).val)
    ELSE ItemLoop(a, PyIter(cont.val).val)

\* Mutant of the structural checks: the container key is not tested.
StructuralCheckWithoutKeyTest(a, data) ==
    ContainerLoop(a, PyGetItem(data, ContainerKey(a)))

\* The container-key test and the loops over the container.
StructuralCheck(a, data) ==
    IF ~PyIn(ContainerKey(a), data).ok THEN RaiseExc(PyIn(ContainerKey(a), data).exc)
    ELSE IF ~PyIn(ContainerKey(a), data).val
    THEN ReturnEnv(Failed(MissingText(a), NoDetail))
    ELSE ContainerLoop(a, PyGetItem(data, ContainerKey(a)))

\* json.loads: the text must be one JSON document (whitespace around it is
\* allowed); its value is returned.
ParseJson(t) ==
    IF Len(Strip(t)) = 1 /\ Strip(t)[1].k = "doc"
    THEN Ok(Strip(t)[1].v)
    ELSE Raise(JSONDecodeError)

\* Mutant of the handlers: the clause for json.JSONDecodeError is missing,
\* so that the general clause takes a parse error.
InnerExceptWithoutParseClause(a, e, ran) ==
    IF IsException(e) THEN Returned(Failed(ProcessFailText(a), StrOf(e)), ran)
    ELSE OuterExcept(Raised(e, ran))

\* The two handlers of the inner try of process, then the outermost one.
InnerExcept(a, e, ran) ==
    IF IsJSONDecodeError(e) THEN Returned(Failed(ParseFailText(a), StrOf(e)), ran)
    ELSE IF IsException(e) THEN Returned(Failed(ProcessFailText(a), StrOf(e)), ran)
    ELSE OuterExcept(Raised(e, ran))

\* process after the typed construction: return AgentResponse(success=True,
\* data=....dict()).
AfterBuild(a, built) ==
    IF ~built.ok
    THEN InnerExcept(a, built.exc, <<"normalize", "parse", "validate", "construct">>)
    ELSE Returned(Succeeded(built.val),
                  <<"normalize", "parse", "validate", "construct">>)

\* process after the structural checks.
AfterCheck(a, data, check) ==
    IF check.r = "raise"
    THEN InnerExcept(a, check.exc, <<"normalize", "parse", "validate">>)
    ELSE IF check.r = "return"
    THEN Returned(check.env, <<"normalize", "parse", "validate">>)
    ELSE AfterBuild(a, BuildResponse(a, data))

\* process after json.loads.
AfterParse(a, parsed) ==
    IF ~parsed.ok THEN InnerExcept(a, parsed.exc, <<"normalize", "parse">>)
    ELSE AfterCheck(a, parsed.val, StructuralCheck(a, parsed.val))

\* process from the await on: resp is what chain.ainvoke returned or raised.
ProcessPost(a, resp) ==
    IF ~resp.ok
    THEN IF IsException(resp.exc)
         THEN Returned(Failed(GenerateFailText(a), StrOf(resp.exc)), <<>>)
         ELSE OuterExcept(Raised(resp.exc, <<>>))
    ELSE AfterParse(a, ParseJson(Normalize(resp.val)))

(***************************************************************************)
(* The endpoints of main.py.                                               *)
(***************************************************************************)
HttpResponse(status, detail, body) ==
    [status |-> status, detail |-> detail, body |-> body]

\* What {"detail": ...} shows of an agent's error message, with the text put
\* in front of it.
Detail(prefix, error) == [prefix |-> prefix, error |-> error]

\* str(HTTPException(status_code=400, detail=error)): "400: <error>" where
\* HTTPException defines __str__, "" where it does not (the exception is
\* constructed with keyword arguments only).
StrOfHTTPException(error) == {Detail("400: ", error), Detail("", ErrNone)}

\* The body of an endpoint after process returned or raised:
\*   if not response.success: raise HTTPException(status_code=400, ...)
\*   return response.data
\* inside try ... except Exception as e: raise HTTPException(status_code=500,
\* detail=str(e)).  HTTPException derives from Exception.
HandlerResponses(res) ==
    IF res.kind = "raised"
    THEN {HttpResponse(500, Detail("", Err("", StrOf(res.exc))), EmptyDict)}
    ELSE IF ~res.env.success
    THEN IF IsException([cls |-> "HTTPException"])
         THEN {HttpResponse(500, d, EmptyDict) :
                  d \in StrOfHTTPException(res.env.error)}
         ELSE {HttpResponse(400, Detail("", res.env.error), EmptyDict)}
    ELSE {HttpResponse(200, Detail("", ErrNone), res.env.data)}


(***************************************************************************)
(* The inputs the model draws from.                                        *)
(***************************************************************************)
\* All sequences over S of length at most n.
SeqsUpTo(S, n) == UNION {[1..k -> S] : k \in 0..n}

Names(model) == {model[i].name : i \in 1..Len(model)}
TypeOf(model, f) == model[CHOOSE i \in 1..Len(model) : model[i].name = f].type

\* A value of the declared type.
GoodValue(type) ==
    CASE type = "float" -> JNum(10)
      [] type = "bool" -> JBool(TRUE)
      [] OTHER -> JStr("a")

\* An item holding every required field with a value of its type.
GoodItem(a) ==
    LET req == RequiredFields(a)
    IN JObj([f \in {req[i] : i \in 1..Len(req)} |->
                GoodValue(TypeOf(ItemModel(a), f))])

\* The items of events and restaurants: complete, without the last or the
\* first required field, complete with a price or rating that is no number,
\* and null.
FlatItems(a) ==
    LET good == GoodItem(a)
        req == RequiredFields(a)
        number == IF a = "events" THEN "price" ELSE "rating"
    IN {good,
        JObj(Without(good.m, {req[Len(req)]})),
        JObj(Without(good.m, {req[1]})),
        JObj(With(good.m, number, JStr("a"))),
        JNull}

\* The activities: complete, and without "category".
ActivityItems ==
    {GoodItem("itinerary"), JObj(Without(GoodItem("itinerary").m, {"category"}))}

Day(date, acts) == JObj([f \in {"date", "activities"} |->
                            IF f = "date" THEN date ELSE acts])

\* The days: with a date and any activities; without "activities"; without
\* "date"; with a null date; with null activities; and null.
DayItems ==
    {Day(JStr("a"), JArr(q)) : q \in SeqsUpTo(ActivityItems, MaxActs)}
    \cup {JObj(Single("date", JStr("a"))),
          JObj(Single("activities", JArr(<<GoodItem("itinerary")>>))),
          Day(JNull, JArr(<<GoodItem("itinerary")>>)),
          Day(JStr("a"), JNull),
          JNull}

Items(a) == IF a = "itinerary" THEN DayItems ELSE FlatItems(a)

\* The JSON documents a generator may answer with: a mapping whose container
\* is a sequence of items; a mapping without the container key; a mapping
\* whose container is no sequence; a value that is no mapping.
Docs(a) ==
    {JObj(Single(ContainerKey(a), JArr(q))) : q \in SeqsUpTo(Items(a), MaxItems)}
    \cup {JObj(EmptyDict), JObj(Single("stuff", JArr(<<GoodItem(a)>>)))}
    \cup {JObj(Single(ContainerKey(a), v)) :
            v \in {JNull, JNum(10), JStr(""), JStr("a"), JObj(EmptyDict),
                   JObj(Single("name", JStr("a")))}}
    \cup {JNull, JArr(<<>>)}

\* A few of them, for the study of concurrent invocations.
FewDocs(a) ==
    {JObj(Single(ContainerKey(a), JArr(<<GoodItem(a)>>))),
     JObj(Single(ContainerKey(a), JArr(<<>>))),
     JObj(EmptyDict)}

\* The texts around a document: nothing, the fence on lines of its own, and
\* a sentence before it.
TextsOf(docs) ==
    {<<DocCh(d)>> : d \in docs}
    \cup {OpenMarker \o Str(<<"\n">>) \o <<DocCh(d)>> \o Str(<<"\n">>) \o CloseMarker :
            d \in docs}
    \cup {Str(<<"x", " ">>) \o <<DocCh(d)>> : d \in docs}
    \cup {Str(<<"x">>), <<>>}

\* Every document as it is, and a few of them with the texts around them.
Texts(a, scale) ==
    IF scale = "full"
    THEN {<<DocCh(d)>> : d \in Docs(a)} \cup TextsOf(FewDocs(a))
    ELSE TextsOf(FewDocs(a))

\* What chain.ainvoke may raise.
GeneratorErrors ==
    {Exc("TimeoutError", "timed out", NoIndex, NoIndex, NoField),
     Exc("APIError", "rate limit", NoIndex, NoIndex, NoField)}

\* A dict holding the keys of K, each with a value of its type.
GoodDict(K) == JObj([f \in K |-> Good])

\* Request bodies of an endpoint: every field; only the fields without
\* default; one required field missing; one field of the wrong type.
Bodies(a) ==
    LET model == RequestModel(a)
        required == {model[i].name : i \in {j \in 1..Len(model) : model[j].required}}
    IN {GoodDict(Names(model)),
        GoodDict(required),
        GoodDict(Names(model) \ {model[2].name}),
        JObj(With(GoodDict(Names(model)).m, model[2].name, Bad))}

\* The keys validate_input asks for.
ValidateKeys(a) ==
    CASE a = "itinerary" -> {"destination", "start_date", "preferences", "days"}
      [] a = "events" -> {"location", "date", "preferences", "budget"}
      [] a = "restaurant" -> {"date"}

\* Arguments of a direct call of process: None; a dict with every key that
\* validate_input and the request model ask for; the same without one key of
\* validate_input; the same with a value of the wrong type; and only the
\* keys of validate_input.
DirectInputs(a) ==
    LET all == ValidateKeys(a) \cup Names(RequestModel(a))
        one == CHOOSE k \in ValidateKeys(a) : TRUE
    IN {JNull,
        GoodDict(all),
        GoodDict(all \ {one}),
        JObj(With(GoodDict(all).m, RequestModel(a)[2].name, Bad)),
        GoodDict(ValidateKeys(a))}


(***************************************************************************)
(* The invocations.  Each is one request handled by the event loop: the    *)
(* handler (or a direct caller) runs process up to the await of            *)
(* chain.ainvoke; the generator answers that call; the coroutine resumes   *)
(* and runs to its return, and the handler to its response.                *)
(***************************************************************************)
Procs == {1, 2}

NoCall == [kind |-> "none"]
NoResponse == [kind |-> "none"]
NoOutcome == [kind |-> "none"]
NoHttp == [status |-> 0]

\* Mutant of the coroutine: the awaited result is kept in one place shared
\* by all invocations instead of in the coroutine's own frame.
SharedFrame(p) == 1

\* The frame of invocation p's coroutine, which holds its local variables
\* (response, response_text, the parsed data).
FrameOf(p) == p

Init ==
    /\ pc = [p \in Procs |-> "idle"]
    /\ via = [p \in Procs |-> "none"]
    /\ agent = [p \in Procs |-> "none"]
    /\ input_data = [p \in Procs |-> JNull]
    /\ call = [p \in Procs |-> NoCall]
    /\ response = [f \in Procs |-> NoResponse]
    /\ delivered = [p \in Procs |-> NoResponse]
    /\ calls = [p \in Procs |-> 0]
    /\ outcome = [p \in Procs |-> NoOutcome]
    /\ http = [p \in Procs |-> NoHttp]
    /\ raw = <<>>
    /\ npc = "off"
    /\ norm1 = <<>>
    /\ norm2 = <<>>
    /\ normW = <<>>

\* process(input) has run to its first return or to the await, with res.
Entered(p, a, input, how, res) ==
    /\ via' = [via EXCEPT ![p] = how]
    /\ agent' = [agent EXCEPT ![p] = a]
    /\ input_data' = [input_data EXCEPT ![p] = input]
    /\ outcome' = [outcome EXCEPT ![p] = res]
    /\ IF res.kind = "suspended"
       THEN /\ call' = [call EXCEPT ![p] = res.chain_input]
            /\ calls' = [calls EXCEPT ![p] = @ + 1]
            /\ pc' = [pc EXCEPT ![p] = "awaiting"]
            /\ http' = http
       ELSE /\ UNCHANGED <<call, calls>>
            /\ IF how = "http"
               THEN /\ pc' = [pc EXCEPT ![p] = "responded"]
                    /\ \E h \in HandlerResponses(res) :
                          http' = [http EXCEPT ![p] = h]
               ELSE /\ pc' = [pc EXCEPT ![p] = "returned"]
                    /\ http' = http
    /\ UNCHANGED <<response, delivered>>
    /\ UNCHANGED normVars

\* process(input) is entered and runs to its first return or to the await.
Enter(p, a, input, how) == Entered(p, a, input, how, ProcessPre(a, input))

\* A request body that is not of the request model: FastAPI answers 422 and
\* the endpoint function is not called.
HttpRejected(p, a, body) ==
    /\ pc[p] = "idle"
    /\ ~MakeRequest(a, body).ok
    /\ pc' = [pc EXCEPT ![p] = "responded"]
    /\ via' = [via EXCEPT ![p] = "http"]
    /\ agent' = [agent EXCEPT ![p] = a]
    /\ http' = [http EXCEPT ![p] =
                  HttpResponse(422, Detail("", Err("", StrOf(MakeRequest(a, body).exc))),
                               EmptyDict)]
    /\ UNCHANGED <<input_data, call, response, delivered, calls, outcome>>
    /\ UNCHANGED normVars

\* generate_itinerary, get_events, get_restaurants: the endpoint calls
\* process with request.dict().
HttpRequest(p, a, body) ==
    /\ pc[p] = "idle"
    /\ MakeRequest(a, body).ok
    /\ Enter(p, a, RequestDict(MakeRequest(a, body).val), "http")

\* process called by another caller with any argument.
DirectCall(p, a, input) ==
    /\ pc[p] = "idle"
    /\ Enter(p, a, input, "direct")

\* chain.ainvoke of invocation p returns a message with this content.
GeneratorReturns(p, scale) ==
    /\ pc[p] = "awaiting"
    /\ \E text \in Texts(agent[p], scale) :
          /\ response' = [response EXCEPT ![FrameOf(p)] = Ok(text)]
          /\ delivered' = [delivered EXCEPT ![p] = Ok(text)]
    /\ pc' = [pc EXCEPT ![p] = "resumable"]
    /\ call' = [call EXCEPT ![p] = NoCall]
    /\ UNCHANGED <<via, agent, input_data, calls, outcome, http>>
    /\ UNCHANGED normVars

\* chain.ainvoke of invocation p raises.
GeneratorRaises(p, e) ==
    /\ pc[p] = "awaiting"
    /\ pc' = [pc EXCEPT ![p] = "resumable"]
    /\ call' = [call EXCEPT ![p] = NoCall]
    /\ response' = [response EXCEPT ![FrameOf(p)] = Raise(e)]
    /\ delivered' = [delivered EXCEPT ![p] = Raise(e)]
    /\ UNCHANGED <<via, agent, input_data, calls, outcome, http>>
    /\ UNCHANGED normVars

\* The trace of the whole of process from those of its two halves.
WithTrace(ran, post) == [post EXCEPT !.ran = ran \o post.ran]

\* process has run from the await to its end with res; an endpoint then runs
\* to its response.
Resumed(p, res) ==
    /\ outcome' = [outcome EXCEPT ![p] = res]
    /\ IF via[p] = "http"
       THEN /\ pc' = [pc EXCEPT ![p] = "responded"]
            /\ \E h \in HandlerResponses(res) : http' = [http EXCEPT ![p] = h]
       ELSE /\ pc' = [pc EXCEPT ![p] = "returned"]
            /\ http' = http
    /\ UNCHANGED <<via, agent, input_data, call, response, delivered, calls>>
    /\ UNCHANGED normVars

\* The coroutine resumes after the await and runs to its return.
Resume(p) ==
    /\ pc[p] = "resumable"
    /\ Resumed(p, WithTrace(outcome[p].ran,
                            ProcessPost(agent[p], response[FrameOf(p)])))

\* The invocation is over; its frame is dropped.
Finish(p) ==
    /\ pc[p] \in {"returned", "responded"}
    /\ pc' = [pc EXCEPT ![p] = "idle"]
    /\ via' = [via EXCEPT ![p] = "none"]
    /\ agent' = [agent EXCEPT ![p] = "none"]
    /\ input_data' = [input_data EXCEPT ![p] = JNull]
    /\ response' = [response EXCEPT ![FrameOf(p)] = NoResponse]
    /\ delivered' = [delivered EXCEPT ![p] = NoResponse]
    /\ calls' = [calls EXCEPT ![p] = 0]
    /\ outcome' = [outcome EXCEPT ![p] = NoOutcome]
    /\ http' = [http EXCEPT ![p] = NoHttp]
    /\ UNCHANGED call
    /\ UNCHANGED normVars

\* One invocation at a time, with every input of the model.
Next ==
    \E p \in {1} :
        \/ \E a \in Agents : \E body \in Bodies(a) : HttpRejected(p, a, body)
        \/ \E a \in Agents : \E body \in Bodies(a) : HttpRequest(p, a, body)
        \/ \E a \in Agents : \E input \in DirectInputs(a) : DirectCall(p, a, input)
        \/ GeneratorReturns(p, "full")
        \/ \E e \in GeneratorErrors : GeneratorRaises(p, e)
        \/ Resume(p)
        \/ Finish(p)

Spec == Init /\ [][Next]_vars

\* Two invocations interleaved in any way, with a few generator answers.
NextConcurrent ==
    \E p \in Procs :
        \/ \E a \in Agents : \E body \in Bodies(a) : HttpRejected(p, a, body)
        \/ \E a \in Agents : \E body \in Bodies(a) : HttpRequest(p, a, body)
        \/ \E a \in Agents : \E input \in DirectInputs(a) : DirectCall(p, a, input)
        \/ GeneratorReturns(p, "few")
        \/ \E e \in GeneratorErrors : GeneratorRaises(p, e)
        \/ Resume(p)
        \/ Finish(p)

SpecConcurrent == Init /\ [][NextConcurrent]_vars

(***************************************************************************)
(* The normalizer study: normalize a text, normalize the result again, and *)
(* normalize the text wrapped in the fence.                                *)
(***************************************************************************)
InitNormalizer ==
    /\ pc = [p \in Procs |-> "idle"]
    /\ via = [p \in Procs |-> "none"]
    /\ agent = [p \in Procs |-> "none"]
    /\ input_data = [p \in Procs |-> JNull]
    /\ call = [p \in Procs |-> NoCall]
    /\ response = [f \in Procs |-> NoResponse]
    /\ delivered = [p \in Procs |-> NoResponse]
    /\ calls = [p \in Procs |-> 0]
    /\ outcome = [p \in Procs |-> NoOutcome]
    /\ http = [p \in Procs |-> NoHttp]
    /\ raw \in NormTexts
    /\ npc = "start"
    /\ norm1 = <<>>
    /\ norm2 = <<>>
    /\ normW = <<>>

NormalizeOnce ==
    /\ npc = "start"
    /\ norm1' = Normalize(raw)
    /\ npc' = "once"
    /\ UNCHANGED <<raw, norm2, normW>>
    /\ UNCHANGED pipeVars

NormalizeAgain ==
    /\ npc = "once"
    /\ norm2' = Normalize(norm1)
    /\ npc' = "twice"
    /\ UNCHANGED <<raw, norm1, normW>>
    /\ UNCHANGED pipeVars

NormalizeWrapped ==
    /\ npc = "twice"
    /\ normW' = Normalize(Wrap(raw))
    /\ npc' = "done"
    /\ UNCHANGED <<raw, norm1, norm2>>
    /\ UNCHANGED pipeVars

NextNormalizer == NormalizeOnce \/ NormalizeAgain \/ NormalizeWrapped

SpecNormalizer == InitNormalizer /\ [][NextNormalizer]_vars


(***************************************************************************)
(* Vocabulary of the properties.                                           *)
(***************************************************************************)
\* process of invocation p is over (it returned or raised).
Ended(p) ==
    pc[p] \in {"returned", "responded"} /\ outcome[p].kind \in {"returned", "raised"}

\* The generator answered invocation p with a text, or with an exception.
GotText(p) == "ok" \in DOMAIN delivered[p] /\ delivered[p].ok
GotError(p) == "ok" \in DOMAIN delivered[p] /\ ~delivered[p].ok

\* The record parsed from the generator's text, when it is JSON.
Parsed(p) == ParseJson(Normalize(delivered[p].val))
HasRecord(p) == GotText(p) /\ Parsed(p).ok
Record(p) == Parsed(p).val

\* The parsed record is a mapping whose container is a sequence.
HasSequence(p) ==
    /\ HasRecord(p)
    /\ Record(p).kind = "obj"
    /\ ContainerKey(agent[p]) \in DOMAIN Record(p).m
    /\ Record(p).m[ContainerKey(agent[p])].kind = "arr"
Sequence(p) == Record(p).m[ContainerKey(agent[p])].items

\* The required fields that a mapping lacks.
Lacks(item, fields) == {f \in fields : f \notin DOMAIN item.m}
Required(a) == {RequiredFields(a)[i] : i \in 1..Len(RequiredFields(a))}

\* An event, restaurant or activity that is a mapping with every required field.
CompleteItem(a, item) == item.kind = "obj" /\ Lacks(item, Required(a)) = {}

\* A day with both keys whose activities are a sequence of mappings.
ShapedDay(day) ==
    /\ day.kind = "obj"
    /\ Lacks(day, {"date", "activities"}) = {}
    /\ day.m["activities"].kind = "arr"
    /\ \A j \in 1..Len(day.m["activities"].items) :
          day.m["activities"].items[j].kind = "obj"

\* A day that passes every structural check.
CompleteDay(day) ==
    /\ ShapedDay(day)
    /\ \A j \in 1..Len(day.m["activities"].items) :
          CompleteItem("itinerary", day.m["activities"].items[j])

\* What an error message shows: an index, a field or key name.  The fixed
\* texts of the agents show no index; only the missing-container texts quote
\* a name, the container key.
QuotedIn(text) == {ContainerKey(a) : a \in {b \in Agents : MissingText(b) = text}}
ShowsIndex(error, k) ==
    error.set /\ (error.detail.index = k \/ error.detail.sub = k)
ShowsName(error, f) ==
    error.set /\ (error.detail.field = f \/ error.detail.msg = f \/ f \in QuotedIn(error.text))

\* Some stage of process raised an exception in invocation p.
StageRaised(p) ==
    \/ ~validate_input(agent[p], input_data[p]).ok
    \/ /\ validate_input(agent[p], input_data[p]).ok
       /\ validate_input(agent[p], input_data[p]).val
       /\ ~MakeRequest(agent[p], input_data[p]).ok
    \/ GotError(p)
    \/ GotText(p) /\ ~Parsed(p).ok
    \/ HasRecord(p) /\ StructuralCheck(agent[p], Record(p)).r = "raise"
    \/ /\ HasRecord(p)
       /\ StructuralCheck(agent[p], Record(p)).r = "pass"
       /\ ~BuildResponse(agent[p], Record(p)).ok

(***************************************************************************)
(* C1.  process never raises outward: whichever stage raises (validate_input, *)
(* the request model, the generator call, parsing, the structural checks,  *)
(* the typed construction), process returns an AgentResponse with          *)
(* success = false.                                                        *)
(***************************************************************************)
ProcessNeverRaises ==
    \A p \in Procs :
        /\ outcome[p].kind # "raised"
        /\ Ended(p) /\ StageRaised(p) => ~outcome[p].env.success

\* The typed construction raised and process returned an envelope.
ConstructionRaised ==
    \E p \in Procs :
        /\ Ended(p)
        /\ HasRecord(p)
        /\ StructuralCheck(agent[p], Record(p)).r = "pass"
        /\ ~BuildResponse(agent[p], Record(p)).ok
        /\ outcome[p].kind = "returned"

(***************************************************************************)
(* C2.  Every returned envelope has success = true exactly when error is   *)
(* absent and data is a non-empty mapping holding the container key, and   *)
(* success = false exactly when data is the empty mapping and an error     *)
(* message is set.                                                         *)
(***************************************************************************)
EnvelopeInvariant ==
    \A p \in Procs :
        outcome[p].kind = "returned" =>
            /\ outcome[p].env.success <=>
                  (/\ ~outcome[p].env.error.set
                   /\ DOMAIN outcome[p].env.data # {}
                   /\ ContainerKey(agent[p]) \in DOMAIN outcome[p].env.data)
            /\ ~outcome[p].env.success <=>
                  (/\ DOMAIN outcome[p].env.data = {}
                   /\ outcome[p].env.error.set)

\* Envelopes of both kinds: here a successful one with a non-empty list.
SuccessfulEnvelope ==
    \E p \in Procs :
        /\ outcome[p].kind = "returned"
        /\ outcome[p].env.success
        /\ Len(outcome[p].env.data[ContainerKey(agent[p])]) > 0

(***************************************************************************)
(* C3.  Whenever the agent returns a failed envelope, the endpoint answers *)
(* 400 with {"detail": <the envelope's error>}; 500 is answered only when  *)
(* an error outside the classified failures occurs in the handler.         *)
(***************************************************************************)
FailedEnvelopeAnswered400 ==
    \A p \in Procs :
        pc[p] = "responded" /\ outcome[p].kind = "returned" =>
            /\ ~outcome[p].env.success =>
                  /\ http[p].status = 400
                  /\ http[p].detail = Detail("", outcome[p].env.error)
            /\ http[p].status # 500

(***************************************************************************)
(* C4.  Fail-fast completeness, as claimed: when the container is a        *)
(* sequence and its first incomplete item is item k, lacking field f,      *)
(* process returns a failed envelope whose error identifies k and f, and   *)
(* no typed result is constructed.                                         *)
(***************************************************************************)
\* The container is a sequence of mappings (the activities of each day too)
\* and position i holds the first element that fails a check.
FirstIncompleteAt(p, i) ==
    /\ HasSequence(p)
    /\ i \in 1..Len(Sequence(p))
    /\ IF agent[p] = "itinerary"
       THEN /\ \A j \in 1..(i - 1) : CompleteDay(Sequence(p)[j])
            /\ Sequence(p)[i].kind = "obj"
            /\ \/ Lacks(Sequence(p)[i], {"date", "activities"}) # {}
               \/ ShapedDay(Sequence(p)[i]) /\ ~CompleteDay(Sequence(p)[i])
       ELSE /\ \A j \in 1..(i - 1) : CompleteItem(agent[p], Sequence(p)[j])
            /\ Sequence(p)[i].kind = "obj"
            /\ ~CompleteItem(agent[p], Sequence(p)[i])

\* The names that the first incomplete element, at position i, lacks.
LackedAt(p, i) ==
    IF agent[p] # "itinerary" THEN Lacks(Sequence(p)[i], Required(agent[p]))
    ELSE IF Lacks(Sequence(p)[i], {"date", "activities"}) # {}
    THEN Lacks(Sequence(p)[i], {"date", "activities"})
    ELSE UNION {Lacks(Sequence(p)[i].m["activities"].items[j], Required("itinerary")) :
                  j \in 1..Len(Sequence(p)[i].m["activities"].items)}

IncompleteItemIdentified ==
    \A p \in Procs : \A i \in 1..MaxItems :
        Ended(p) /\ FirstIncompleteAt(p, i) =>
            /\ outcome[p].kind = "returned"
            /\ ~outcome[p].env.success
            /\ ShowsIndex(outcome[p].env.error, i - 1)
            /\ \E f \in LackedAt(p, i) : ShowsName(outcome[p].env.error, f)
            /\ \A k \in 1..Len(outcome[p].ran) : outcome[p].ran[k] # "construct"

(***************************************************************************)
(* C4, as the code has it: when the container is a sequence of mappings    *)
(* and its first incomplete item is item k, process returns the failed     *)
(* envelope with the fixed message for that kind of item ("Invalid event / *)
(* restaurant / day / activity structure in response"), which shows        *)
(* neither k nor a field, and no typed result is constructed.              *)
(***************************************************************************)
\* The fixed message for the first incomplete element at position i.
StructureText(p, i) ==
    IF agent[p] # "itinerary" THEN ItemText(agent[p])
    ELSE IF Lacks(Sequence(p)[i], {"date", "activities"}) # {} THEN DayText
    ELSE ItemText("itinerary")

IncompleteItemRejected ==
    \A p \in Procs : \A i \in 1..MaxItems :
        Ended(p) /\ FirstIncompleteAt(p, i) =>
            /\ outcome[p].kind = "returned"
            /\ outcome[p].env = Failed(StructureText(p, i), NoDetail)
            /\ \A k \in 1..MaxItems : ~ShowsIndex(outcome[p].env.error, k - 1)
            /\ \A f \in Required(agent[p]) \cup {"date", "activities"} :
                  ~ShowsName(outcome[p].env.error, f)
            /\ \A k \in 1..Len(outcome[p].ran) : outcome[p].ran[k] # "construct"

\* An event or restaurant list whose second item is the first incomplete one.
SecondItemIncomplete ==
    \E p \in Procs :
        /\ Ended(p)
        /\ agent[p] # "itinerary"
        /\ FirstIncompleteAt(p, 2)
        /\ ~outcome[p].env.success

(***************************************************************************)
(* C5.  A parsed record that lacks the container key makes process return  *)
(* the failed envelope of the missing-container-key kind, whatever else    *)
(* the record holds.                                                       *)
(***************************************************************************)
MissingContainerRejected ==
    \A p \in Procs :
        /\ Ended(p)
        /\ HasRecord(p)
        /\ Record(p).kind = "obj"
        /\ ContainerKey(agent[p]) \notin DOMAIN Record(p).m
        => /\ outcome[p].kind = "returned"
           /\ outcome[p].env = Failed(MissingText(agent[p]), NoDetail)

\* A record without the container key that holds a list of complete items
\* under another key.
OtherKeyOnly ==
    \E p \in Procs :
        /\ Ended(p)
        /\ HasRecord(p)
        /\ Record(p).kind = "obj"
        /\ DOMAIN Record(p).m = {"stuff"}
        /\ ~outcome[p].env.success


(***************************************************************************)
(* C6.  Normalization as claimed: for every text t,                        *)
(* normalize(normalize(t)) = normalize(t).                                 *)
(***************************************************************************)
NormalizeIdempotent == npc \in {"twice", "done"} => norm2 = norm1

(***************************************************************************)
(* C6, as the code has it: one layer of markers is removed, so             *)
(* normalize(normalize(t)) = normalize(t) exactly for the texts t whose    *)
(* normalize(t) neither starts with the opening marker nor ends with the   *)
(* closing marker (every text with at most one fence around it); for any   *)
(* other text the second pass removes more.                                *)
(***************************************************************************)
NormalizeIdempotentOnSingleFence ==
    npc \in {"twice", "done"} =>
        (norm2 = norm1 <=>
            ~StartsWith(norm1, OpenMarker) /\ ~EndsWith(norm1, CloseMarker))

\* A text inside one fence was normalized twice.
FencedTextNormalizedTwice ==
    /\ npc = "twice"
    /\ StartsWith(raw, OpenMarker)
    /\ EndsWith(raw, CloseMarker)
    /\ norm1 # <<>>
    /\ norm1 # raw
    /\ norm2 = norm1

(***************************************************************************)
(* C7.  Fence removal as claimed: for every text t, normalizing t wrapped  *)
(* in the fence gives the same result as normalizing t.                    *)
(***************************************************************************)
WrappedNormalizesAsUnwrapped == npc = "done" => normW = norm1

(***************************************************************************)
(* C7, as the code has it: normalizing the wrapped t gives the same result *)
(* as normalizing t exactly when t, trimmed, neither starts with the       *)
(* opening marker nor ends with the closing marker; when t carries a       *)
(* marker of its own, wrapping it protects that marker and the results     *)
(* differ.                                                                 *)
(***************************************************************************)
WrappedNormalizesAsUnfenced ==
    npc = "done" =>
        (normW = norm1 <=>
            /\ ~StartsWith(Strip(raw), OpenMarker)
            /\ ~EndsWith(Strip(raw), CloseMarker))

\* A text with content and blanks around it, and no marker, whose wrapped
\* form was normalized.
UnfencedTextWrapped ==
    /\ npc = "done"
    /\ raw # Strip(raw)
    /\ Strip(raw) # <<>>
    /\ ~StartsWith(Strip(raw), OpenMarker)
    /\ ~EndsWith(Strip(raw), CloseMarker)
    /\ normW = norm1

(***************************************************************************)
(* C8.  No retry: one invocation of process calls chain.ainvoke at most    *)
(* once, exactly once when validate_input and the request model succeed    *)
(* and not at all otherwise; when the call fails, process returns a failed *)
(* envelope at once, without normalizing, parsing, checking or             *)
(* constructing.                                                           *)
(***************************************************************************)
\* validate_input returned true and the request model was built.
InputAccepted(p) ==
    /\ validate_input(agent[p], input_data[p]).ok
    /\ validate_input(agent[p], input_data[p]).val
    /\ MakeRequest(agent[p], input_data[p]).ok

\* How many times a stage occurs in the trace of process.
Times(ran, stage) == Cardinality({k \in 1..Len(ran) : ran[k] = stage})

GeneratorCalledOnce ==
    \A p \in Procs :
        /\ calls[p] <= 1
        /\ outcome[p].kind # "none" =>
              /\ calls[p] = Times(outcome[p].ran, "generate")
              /\ calls[p] = (IF InputAccepted(p) THEN 1 ELSE 0)
        /\ Ended(p) /\ GotError(p) =>
              /\ outcome[p].kind = "returned"
              /\ outcome[p].env =
                    Failed(GenerateFailText(agent[p]), StrOf(delivered[p].exc))
              /\ outcome[p].ran = <<"validate_input", "request", "generate">>

\* The one call of the generator failed and process has returned.
GeneratorFailedOnce ==
    \E p \in Procs : Ended(p) /\ GotError(p) /\ calls[p] = 1

(***************************************************************************)
(* C9.  Isolation: however two invocations suspended at their generator    *)
(* calls are interleaved, each resumes with the answer to its own call,    *)
(* and its envelope is the one its own input and its own generator output  *)
(* give; two invocations with the same agent, input and generator output   *)
(* get the same envelope.                                                  *)
(***************************************************************************)
\* What process gives for this agent, input and generator output alone.
Alone(a, input, output) ==
    IF ProcessPre(a, input).kind # "suspended" THEN ProcessPre(a, input)
    ELSE WithTrace(ProcessPre(a, input).ran, ProcessPost(a, output))

Isolation ==
    \A p \in Procs :
        /\ pc[p] = "resumable" => response[FrameOf(p)] = delivered[p]
        /\ Ended(p) => outcome[p] = Alone(agent[p], input_data[p], delivered[p])
        /\ \A q \in Procs :
              /\ Ended(p) /\ Ended(q)
              /\ agent[p] = agent[q]
              /\ input_data[p] = input_data[q]
              /\ delivered[p] = delivered[q]
              => outcome[p] = outcome[q]

\* Two invocations of the same agent, both answered by the generator with
\* different outputs and neither resumed yet.
BothAnsweredDifferently ==
    /\ pc[1] = "resumable"
    /\ pc[2] = "resumable"
    /\ agent[1] = agent[2]
    /\ GotText(1)
    /\ GotText(2)
    /\ delivered[1] # delivered[2]

(***************************************************************************)
(* C10.  A day without "activities", as claimed: process returns a failed  *)
(* envelope whose error identifies that day's index and names the missing  *)
(* key "activities".                                                       *)
(***************************************************************************)
\* Day i of the itinerary is a mapping without "activities", and every day
\* before it passes the checks.
DayWithoutActivitiesAt(p, i) ==
    /\ agent[p] = "itinerary"
    /\ HasSequence(p)
    /\ i \in 1..Len(Sequence(p))
    /\ \A j \in 1..(i - 1) : CompleteDay(Sequence(p)[j])
    /\ Sequence(p)[i].kind = "obj"
    /\ "activities" \notin DOMAIN Sequence(p)[i].m

DayWithoutActivitiesIdentified ==
    \A p \in Procs : \A i \in 1..MaxItems :
        Ended(p) /\ DayWithoutActivitiesAt(p, i) =>
            /\ outcome[p].kind = "returned"
            /\ ~outcome[p].env.success
            /\ ShowsIndex(outcome[p].env.error, i - 1)
            /\ ShowsName(outcome[p].env.error, "activities")

(***************************************************************************)
(* C10, as the code has it: a day without "activities" makes process       *)
(* return the failed envelope with the fixed message "Invalid day          *)
(* structure in response", the same as for a day without "date"; the       *)
(* message shows neither the day's index nor the name of the missing key.  *)
(***************************************************************************)
DayWithoutActivitiesRejected ==
    \A p \in Procs : \A i \in 1..MaxItems :
        Ended(p) /\ DayWithoutActivitiesAt(p, i) =>
            /\ outcome[p].kind = "returned"
            /\ outcome[p].env = Failed(DayText, NoDetail)
            /\ ~ShowsIndex(outcome[p].env.error, i - 1)
            /\ ~ShowsName(outcome[p].env.error, "activities")

\* The second day has a date and no "activities"; the first day is complete.
SecondDayWithoutActivities ==
    \E p \in Procs :
        /\ Ended(p)
        /\ DayWithoutActivitiesAt(p, 2)
        /\ "date" \in DOMAIN Sequence(p)[2].m
        /\ ~outcome[p].env.success

(***************************************************************************)
(* C11.  Malformed payload: when the normalized text of the generator is   *)
(* not JSON, process returns the failed envelope "Failed to parse ...      *)
(* response: " followed by the parser's diagnostic, and neither the        *)
(* structural checks nor the typed construction run.                       *)
(***************************************************************************)
MalformedPayloadRejected ==
    \A p \in Procs :
        Ended(p) /\ GotText(p) /\ ~Parsed(p).ok =>
            /\ outcome[p].kind = "returned"
            /\ outcome[p].env =
                  Failed(ParseFailText(agent[p]), StrOf(JSONDecodeError))
            /\ outcome[p].env.error.detail.msg = "Expecting value"
            /\ Times(outcome[p].ran, "parse") = 1
            /\ Times(outcome[p].ran, "validate") = 0
            /\ Times(outcome[p].ran, "construct") = 0

\* The generator answered with a sentence before the document, and process
\* has returned.
ProseBeforeDocument ==
    \E p \in Procs :
        /\ Ended(p)
        /\ GotText(p)
        /\ Len(delivered[p].val) > 1
        /\ \E k \in 1..Len(delivered[p].val) : delivered[p].val[k].k = "doc"
        /\ ~Parsed(p).ok
        /\ ~outcome[p].env.success

(***************************************************************************)
(* C12.  Type coercion: when every item passes the structural checks and   *)
(* item k is the first that holds a value that cannot be coerced to the    *)
(* declared type of its field, process returns the failed envelope         *)
(* "Failed to process ...: " followed by the text of the ValidationError,  *)
(* which is not the message of an incomplete item and which shows k and    *)
(* the field.                                                              *)
(***************************************************************************)
\* The declared fields of a model whose value in item cannot be coerced.
Uncoercible(model, item) ==
    {f \in Names(model) \cap DOMAIN item.m :
        ~Coercible(TypeOf(model, f), item.m[f])}

\* A complete day whose date or some activity holds such a value.
UncoercibleDay(day) ==
    \/ ~Coercible("str", day.m["date"])
    \/ \E j \in 1..Len(day.m["activities"].items) :
          Uncoercible(Activity, day.m["activities"].items[j]) # {}

\* A complete item (a complete day) that holds such a value.
UncoercibleItem(a, item) ==
    IF a = "itinerary" THEN UncoercibleDay(item)
    ELSE Uncoercible(ItemModel(a), item) # {}

\* Every item passes the structural checks, and item i is the first that
\* holds a value that cannot be coerced.
FirstUncoercibleAt(p, i) ==
    /\ HasSequence(p)
    /\ i \in 1..Len(Sequence(p))
    /\ \A j \in 1..Len(Sequence(p)) :
          IF agent[p] = "itinerary" THEN CompleteDay(Sequence(p)[j])
          ELSE CompleteItem(agent[p], Sequence(p)[j])
    /\ \A j \in 1..(i - 1) : ~UncoercibleItem(agent[p], Sequence(p)[j])
    /\ UncoercibleItem(agent[p], Sequence(p)[i])

\* The error shows a field of item i whose value cannot be coerced (for a
\* day: its date, or the position and field of such an activity).
ShowsUncoercibleField(p, i, error) ==
    IF agent[p] # "itinerary"
    THEN error.detail.field \in Uncoercible(ItemModel(agent[p]), Sequence(p)[i])
    ELSE IF ~Coercible("str", Sequence(p)[i].m["date"])
    THEN error.detail.field = "date"
    ELSE \E j \in 1..Len(Sequence(p)[i].m["activities"].items) :
            /\ error.detail.sub = j - 1
            /\ error.detail.field \in
                  Uncoercible(Activity, Sequence(p)[i].m["activities"].items[j])

UncoercibleValueRejected ==
    \A p \in Procs : \A i \in 1..MaxItems :
        Ended(p) /\ FirstUncoercibleAt(p, i) =>
            /\ outcome[p].kind = "returned"
            /\ ~outcome[p].env.success
            /\ outcome[p].env.data = EmptyDict
            /\ outcome[p].env.error.text = ProcessFailText(agent[p])
            /\ outcome[p].env.error.text \notin
                  {ItemText(agent[p]), DayText, MissingText(agent[p])}
            /\ outcome[p].env.error.detail.msg = "validation error"
            /\ outcome[p].env.error.detail.index = i - 1
            /\ ShowsUncoercibleField(p, i, outcome[p].env.error)
            /\ Times(outcome[p].ran, "construct") = 1

\* A list of events whose second item is complete with a price that is no
\* number, after a first item that is complete and well typed.
SecondPriceNotNumeric ==
    \E p \in Procs :
        /\ Ended(p)
        /\ agent[p] = "events"
        /\ FirstUncoercibleAt(p, 2)
        /\ Sequence(p)[2].m["price"].kind = "str"
        /\ ~outcome[p].env.success

(***************************************************************************)
(* C13.  No partial success: whenever process returns success=true, the    *)
(* container was a sequence whose every item (for the itinerary: every day *)
(* and every activity of every day) was a mapping with all required        *)
(* fields, and the typed data holds one typed item per parsed item, in the *)
(* same order, with the values of the parsed item.                         *)
(***************************************************************************)
\* The typed list that a successful envelope holds under the container key.
TypedList(p) == outcome[p].env.data[ContainerKey(agent[p])]

\* The typed item holds the values of the required fields of the parsed item.
SameItem(a, typed, item) == \A f \in Required(a) : typed[f] = item.m[f]

\* The typed day holds the date of the parsed day and one typed activity per
\* parsed activity, in the same order.
SameDay(typed, day) ==
    /\ typed["date"] = day.m["date"]
    /\ Len(typed["activities"]) = Len(day.m["activities"].items)
    /\ \A j \in 1..Len(day.m["activities"].items) :
          SameItem("itinerary", typed["activities"][j], day.m["activities"].items[j])

SuccessIsComplete ==
    \A p \in Procs :
        Ended(p) /\ outcome[p].kind = "returned" /\ outcome[p].env.success =>
            /\ HasSequence(p)
            /\ Len(TypedList(p)) = Len(Sequence(p))
            /\ \A i \in 1..Len(Sequence(p)) :
                  IF agent[p] = "itinerary"
                  THEN /\ CompleteDay(Sequence(p)[i])
                       /\ SameDay(TypedList(p)[i], Sequence(p)[i])
                  ELSE /\ CompleteItem(agent[p], Sequence(p)[i])
                       /\ SameItem(agent[p], TypedList(p)[i], Sequence(p)[i])

\* A successful itinerary of two days, the first with two activities.
TwoDaysSucceeded ==
    \E p \in Procs :
        /\ Ended(p)
        /\ outcome[p].kind = "returned"
        /\ outcome[p].env.success
        /\ agent[p] = "itinerary"
        /\ Len(Sequence(p)) = 2
        /\ Len(Sequence(p)[1].m["activities"].items) = 2
        /\ Len(TypedList(p)[1]["activities"]) = 2

(***************************************************************************)
(* C14.  A container that is no sequence, as claimed: when the parsed      *)
(* record holds the container key with a value that is not a sequence (a   *)
(* mapping, a string, a number, null), process returns the failed envelope *)
(* of the missing-container-key kind, as when the key is absent.           *)
(***************************************************************************)
\* The parsed record is a mapping whose container is present and no sequence.
ContainerNotSequence(p) ==
    /\ HasRecord(p)
    /\ Record(p).kind = "obj"
    /\ ContainerKey(agent[p]) \in DOMAIN Record(p).m
    /\ Record(p).m[ContainerKey(agent[p])].kind # "arr"

NonSequenceContainerRejectedAsMissing ==
    \A p \in Procs :
        Ended(p) /\ ContainerNotSequence(p) =>
            /\ outcome[p].kind = "returned"
            /\ outcome[p].env = Failed(MissingText(agent[p]), NoDetail)

(***************************************************************************)
(* C15.  Nested descent as claimed: days are checked in order and the      *)
(* activities of a day before the next day, so when activity j of day i is *)
(* the first incomplete element in that order, the failure identifies day  *)
(* i, activity j and the missing field, and never a later day.             *)
(***************************************************************************)
\* Every day before day i passes the checks, day i has both keys and a
\* sequence of mappings as activities, and activity j is its first
\* incomplete one.  The days after day i are arbitrary.
NestedFirstIncompleteAt(p, i, j) ==
    /\ agent[p] = "itinerary"
    /\ HasSequence(p)
    /\ i \in 1..Len(Sequence(p))
    /\ \A k \in 1..(i - 1) : CompleteDay(Sequence(p)[k])
    /\ ShapedDay(Sequence(p)[i])
    /\ j \in 1..Len(Sequence(p)[i].m["activities"].items)
    /\ \A k \in 1..(j - 1) :
          CompleteItem("itinerary", Sequence(p)[i].m["activities"].items[k])
    /\ ~CompleteItem("itinerary", Sequence(p)[i].m["activities"].items[j])

NestedActivityIdentified ==
    \A p \in Procs : \A i \in 1..MaxItems : \A j \in 1..MaxActs :
        Ended(p) /\ NestedFirstIncompleteAt(p, i, j) =>
            /\ outcome[p].kind = "returned"
            /\ ~outcome[p].env.success
            /\ outcome[p].env.error.detail.index = i - 1
            /\ outcome[p].env.error.detail.sub = j - 1
            /\ \E f \in Lacks(Sequence(p)[i].m["activities"].items[j],
                              Required("itinerary")) :
                  ShowsName(outcome[p].env.error, f)

(***************************************************************************)
(* C15, as the code has it: when activity j of day i is the first          *)
(* incomplete element in depth-first order, process returns the failed     *)
(* envelope with the fixed message "Invalid activity structure in          *)
(* response", whatever the later days hold (never the message of an        *)
(* invalid later day); the message shows neither i, nor j, nor the missing *)
(* field, and no typed result is constructed.                              *)
(***************************************************************************)
NestedActivityRejectedFirst ==
    \A p \in Procs : \A i \in 1..MaxItems : \A j \in 1..MaxActs :
        Ended(p) /\ NestedFirstIncompleteAt(p, i, j) =>
            /\ outcome[p].kind = "returned"
            /\ outcome[p].env = Failed(ItemText("itinerary"), NoDetail)
            /\ outcome[p].env.error.text # DayText
            /\ \A k \in 1..MaxItems : ~ShowsIndex(outcome[p].env.error, k - 1)
            /\ \A f \in Required("itinerary") : ~ShowsName(outcome[p].env.error, f)
            /\ Times(outcome[p].ran, "construct") = 0

\* The second activity of the first day lacks a field, and the second day
\* is a mapping without "activities".
IncompleteActivityBeforeInvalidDay ==
    \E p \in Procs :
        /\ Ended(p)
        /\ NestedFirstIncompleteAt(p, 1, 2)
        /\ Len(Sequence(p)) = 2
        /\ Sequence(p)[2].kind = "obj"
        /\ "activities" \notin DOMAIN Sequence(p)[2].m
        /\ ~outcome[p].env.success

(***************************************************************************)
(* C16.  The frame of the normalizer as claimed: beyond trimming, the text *)
(* is changed only when it has the opening marker at its very start and    *)
(* the closing marker at its very end; a text with one of the two markers, *)
(* or with neither, is returned trimmed and otherwise unaltered.           *)
(***************************************************************************)
NormalizeAltersOnlyFenced ==
    npc # "start" =>
        (~(StartsWith(Strip(raw), OpenMarker) /\ EndsWith(Strip(raw), CloseMarker))
            => norm1 = Strip(raw))

(***************************************************************************)
(* C16, as the code has it: the two markers are tested independently.      *)
(* Beyond trimming, the text is changed exactly when, trimmed, it starts   *)
(* with the opening marker or ends with the closing marker; one marker     *)
(* alone is removed too.  A text with neither marker is returned trimmed   *)
(* and otherwise unaltered.                                                *)
(***************************************************************************)
NormalizeAltersEitherMarker ==
    npc # "start" =>
        /\ norm1 = Strip(raw) <=>
              (~StartsWith(Strip(raw), OpenMarker) /\ ~EndsWith(Strip(raw), CloseMarker))
        /\ StartsWith(Strip(raw), OpenMarker) /\ ~EndsWith(Strip(raw), CloseMarker)
              => norm1 = Strip(SubSeq(Strip(raw), 8, Len(Strip(raw))))
        /\ ~StartsWith(Strip(raw), OpenMarker) /\ EndsWith(Strip(raw), CloseMarker)
              => norm1 = Strip(SubSeq(Strip(raw), 1, Len(Strip(raw)) - 3))

\* A text that starts with the opening marker, has content after it and
\* does not end with the closing marker, has been normalized: the marker is
\* gone.
OpeningMarkerAloneRemoved ==
    /\ npc # "start"
    /\ StartsWith(Strip(raw), OpenMarker)
    /\ ~EndsWith(Strip(raw), CloseMarker)
    /\ Len(Strip(raw)) > Len(OpenMarker)
    /\ norm1 # Strip(raw)
    /\ norm1 # <<>>

(***************************************************************************)
(* C17.  The events endpoint: get_events passes process the dict of an     *)
(* EventRequest, whose keys are location, event_date, preferences and      *)
(* budget; validate_input of the events agent asks for "date", so for      *)
(* every accepted request body it returns false, chain.ainvoke is never    *)
(* called, and process returns the failed envelope "Invalid input data".   *)
(***************************************************************************)
\* Invocation p is a request to /api/events whose body was accepted.
EventsEndpointEntered(p) ==
    via[p] = "http" /\ agent[p] = "events" /\ outcome[p].kind # "none"

EventsEndpointAlwaysInvalidInput ==
    \A p \in Procs :
        EventsEndpointEntered(p) =>
            /\ DOMAIN input_data[p].m = {"location", "event_date", "preferences", "budget"}
            /\ validate_input("events", input_data[p]) = Ok(FALSE)
            /\ calls[p] = 0
            /\ pc[p] = "responded"
            /\ outcome[p] =
                  Returned(Failed(InvalidInputText, NoDetail), <<"validate_input">>)
            /\ http[p].status # 200

\* A request to /api/events with every field of the request model has been
\* answered.
EventsRequestAnswered ==
    \E p \in Procs :
        /\ EventsEndpointEntered(p)
        /\ pc[p] = "responded"
        /\ \A f \in DOMAIN input_data[p].m : input_data[p].m[f].kind = "good"
        /\ outcome[p].kind = "returned"
        /\ outcome[p].env.error.text = InvalidInputText

====
